---- MODULE Spec2Model ----
(***************************************************************************)
(* Dialog stack manager of src/stores/dialogStore.ts (the Pinia store      *)
(* "dialog"): the priority-ordered dialogStack, activeKey, and the         *)
(* operations showDialog, showExtensionDialog, riseDialog, closeDialog     *)
(* and the per-entry hooks onAfterHide / onMousedown.                      *)
(*                                                                         *)
(* Strings are sequences of tokens, so that startsWith and the template    *)
(* `extension-${key}` are computed, not assumed: 'extension-foo' is        *)
(* <<"extension-", "foo">>.  An optional value (a missing option, null,    *)
(* undefined) is None == <<>> and a present one is Some(x) == <<x>>.       *)
(***************************************************************************)
EXTENDS Integers, Sequences, FiniteSets, TLC

\* dialogStack, activeKey: the store's state (dialogStore.ts:65-71).
\* genCount: how many keys genDialogKey has handed out.
\* last: what the last call did: op, key (the key it was given; for show the
\*   key it resolved, generated keys included), created (createDialog ran),
\*   evicted (the key createDialog shifted out), log (callbacks and removals
\*   in the order they happened), ret (the key of the returned entry).
\* removed: for each key under which an entry left the stack, how the latest
\*   such entry left ("closed" or "evicted") and whether it had an onClose
\*   callback; its hooks outlive it.  Kept by
\*   the specifications that fire stale hooks, empty in the others.
\* prevActive: the Active Key before the last call (kept by SpecPrev).
\* call: the closeDialog calls in progress while onClose callbacks run
\*   (kept by SpecReentrant): status, frames (the targetDialog of each call
\*   that is inside its onClose callback, outermost first), calls (onClose
\*   invocations since the outermost call began), reentered, and expected
\*   (the keys of the stack at the outermost call, without its target).
\* menu: a combo context menu with its filter input (contextMenuFilter.ts):
\*   open, value (filter.value), displayedItems, itemCount, selectedIndex,
\*   selectedItem, highlighted (the items whose highlight style is set),
\*   clicked, and event (the last event handled).  Kept by SpecMenu.
VARIABLES dialogStack, activeKey, genCount, last, removed, prevActive, call,
          menu

vars ==
  <<dialogStack, activeKey, genCount, last, removed, prevActive, call, menu>>

----------------------------------------------------------------------------
(* Bounds of the model and constants of the program *)

\* dialogStore.ts:131  `dialogStack.value.length >= 10`
MaxDialogs == 10

\* depth of nested closeDialog calls at which the engine's call stack is full
MaxDepth == 3

\* dialogStore.ts:147  `options.priority ?? 1`
DefaultPriority == 1

\* number of keys genDialogKey hands out in a run of Spec
NumGenKeys == 1

\* number of keys genDialogKey hands out in a run of SpecCap
NumFillKeys == 10

None == <<>>

Some(x) == <<x>>

\* `a ?? b` on an optional value
Coalesce(opt, default) == IF opt = None THEN default ELSE opt[1]

----------------------------------------------------------------------------
(* Keys *)

EmptyKey == <<>>

ExtPrefix == <<"extension-">>

\* String.prototype.startsWith
StartsWith(s, p) == Len(s) >= Len(p) /\ SubSeq(s, 1, Len(p)) = p

\* dialogStore.ts:73: `dialog-${random base-36}`; the n-th key handed out.
\* The keys of one run are pairwise distinct (a collision with a key in the
\* stack takes showDialog's existing-key branch, which caller keys exercise).
genDialogKey(n) == <<"dialog-", ToString(n)>>

\* mutant: the prefix is added even when it is there already
extKeyOf_always(key) == ExtPrefix \o key

\* mutant: the key is used as the caller gave it
extKeyOf_identity(key) == key

\* dialogStore.ts:225
extKeyOf(key) == IF StartsWith(key, ExtPrefix) THEN key ELSE ExtPrefix \o key

\* keys callers pass to show / showExtension ('' is the missing key)
CallerKeys == {<<"foo">>, ExtPrefix \o <<"foo">>}

KeyInputs == CallerKeys \cup {EmptyKey}

\* keys callers pass to rise / close, and keys of the entries whose hooks fire
OpKeys == CallerKeys \cup {genDialogKey(n) : n \in 1..NumGenKeys}

\* SpecCap: one entry, 'extension-foo', is reached by show and by showExtension
CapKeys == {ExtPrefix \o <<"foo">>}

CapExtInputs == {<<"foo">>, EmptyKey}

\* SpecCap: the keys passed to rise / close and whose hooks fire
CapOpKeys == CapKeys \cup {genDialogKey(1)}

----------------------------------------------------------------------------
(* Array helpers (0-based indices as in the source; -1 is "not found") *)

\* Array.prototype.findIndex for the predicate `d.key === key`
findIndexByKey(s, key) ==
  IF \E i \in 1..Len(s) : s[i].key = key
  THEN (CHOOSE i \in 1..Len(s) :
          s[i].key = key /\ \A j \in 1..(i - 1) : s[j].key # key) - 1
  ELSE -1

\* mutant: `d.priority < priority` for `d.priority <= priority`
findIndexByPriority_strict(s, priority) ==
  IF \E i \in 1..Len(s) : s[i].priority < priority
  THEN (CHOOSE i \in 1..Len(s) :
          s[i].priority < priority /\ \A j \in 1..(i - 1) : s[j].priority >= priority) - 1
  ELSE -1

\* Array.prototype.findIndex for the predicate `d.priority <= priority`
findIndexByPriority(s, priority) ==
  IF \E i \in 1..Len(s) : s[i].priority <= priority
  THEN (CHOOSE i \in 1..Len(s) :
          s[i].priority <= priority /\ \A j \in 1..(i - 1) : s[j].priority > priority) - 1
  ELSE -1

\* splice(index, 0, d)
spliceInsert(s, index, d) ==
  SubSeq(s, 1, index) \o <<d>> \o SubSeq(s, index + 1, Len(s))

\* splice(index, 1)
spliceRemove(s, index) ==
  SubSeq(s, 1, index) \o SubSeq(s, index + 2, Len(s))

Keys(s) == {s[i].key : i \in 1..Len(s)}

KeySeq(s) == [i \in 1..Len(s) |-> s[i].key]

Without(s, key) == SelectSeq(s, LAMBDA d : d.key # key)

Entry(s, key) == s[findIndexByKey(s, key) + 1]

\* Array.prototype.findIndex / indexOf for an element: -1 when absent
findIndexOf(s, x) ==
  IF \E i \in 1..Len(s) : s[i] = x
  THEN (CHOOSE i \in 1..Len(s) : s[i] = x /\ \A j \in 1..(i - 1) : s[j] # x) - 1
  ELSE -1

\* Array.prototype.splice(start, 1) as dialogStore.ts:111 calls it: a start
\* of -1 (indexOf found nothing) counts from the end of the array
splice1(s, start) ==
  LET from == IF start < 0
              THEN (IF Len(s) + start < 0 THEN 0 ELSE Len(s) + start)
              ELSE start
  IN  IF from >= Len(s) THEN s ELSE spliceRemove(s, from)

\* dialogStore.ts:235-237
isDialogOpen(key) == \E i \in 1..Len(dialogStack) : dialogStack[i].key = key

----------------------------------------------------------------------------
(* The store's functions.  A store value st is [stack, activeKey]; every   *)
(* function returns the store after the call, with what the call did.      *)

\* mutant: the entry is pushed at the end whatever its priority
insertDialogByPriority_push(s, dialog) == Append(s, dialog)

\* dialogStore.ts:79-89
insertDialogByPriority(s, dialog) ==
  LET insertIndex == findIndexByPriority(s, dialog.priority)
  IN  spliceInsert(s, IF insertIndex = -1 THEN Len(s) ELSE insertIndex, dialog)

\* mutant: the active entry's closable option is not consulted
updateCloseOnEscapeStates_noClosable(s, active) ==
  LET topIndex == IF active = None THEN -1 ELSE findIndexByKey(s, active[1])
  IN  [i \in 1..Len(s) |-> [s[i] EXCEPT !.closeOnEscape = (i - 1 = topIndex)]]

\* dialogStore.ts:187-197
updateCloseOnEscapeStates(s, active) ==
  LET topIndex == IF active = None THEN -1 ELSE findIndexByKey(s, active[1])
      topClosable == IF topIndex = -1 THEN FALSE ELSE s[topIndex + 1].closable
  IN  [i \in 1..Len(s) |->
         [s[i] EXCEPT !.closeOnEscape = (i - 1 = topIndex) /\ topClosable]]

\* mutant: activeKey is assigned outside the `index !== -1` test
riseDialog_alwaysActive(st, dialogKey) ==
  LET index == findIndexByKey(st.stack, dialogKey)
  IN  IF index # -1
      THEN LET dialog == st.stack[index + 1]
               s1 == spliceRemove(st.stack, index)
               s2 == insertDialogByPriority(s1, dialog)
           IN  [stack |-> updateCloseOnEscapeStates(s2, Some(dialogKey)),
                activeKey |-> Some(dialogKey)]
      ELSE [stack |-> st.stack, activeKey |-> Some(dialogKey)]

\* dialogStore.ts:91-101
riseDialog(st, dialogKey) ==
  LET index == findIndexByKey(st.stack, dialogKey)
  IN  IF index # -1
      THEN LET dialog == st.stack[index + 1]
               s1 == spliceRemove(st.stack, index)
               s2 == insertDialogByPriority(s1, dialog)
           IN  [stack |-> updateCloseOnEscapeStates(s2, Some(dialogKey)),
                activeKey |-> Some(dialogKey)]
      ELSE st

\* mutant: the first entry's key, not the last one's
topKey_first(s) == IF Len(s) > 0 THEN Some(s[1].key) ELSE None

\* mutant: `length > 1` for `length > 0`
topKey_offByOne(s) == IF Len(s) > 1 THEN Some(s[Len(s)].key) ELSE None

\* dialogStore.ts:113-116
topKey(s) == IF Len(s) > 0 THEN Some(s[Len(s)].key) ELSE None

\* mutant: the entry is removed first and its callback invoked afterward
closeEffects_after(targetDialog) ==
  IF targetDialog.onClose THEN <<"splice", "onClose">> ELSE <<"splice">>

\* dialogStore.ts:109-111: the callback, if one is registered, then the removal
closeEffects(targetDialog) ==
  IF targetDialog.onClose THEN <<"onClose", "splice">> ELSE <<"splice">>

\* dialogStore.ts:103-119; options is None (close()) or Some(key).
\* The result's log lists what the call did, in order.
closeDialog(st, options) ==
  LET index == IF options # None
               THEN findIndexByKey(st.stack, options[1])
               ELSE IF st.activeKey = None THEN -1
                    ELSE findIndexByKey(st.stack, st.activeKey[1])
  IN  IF index = -1
      THEN [stack |-> st.stack, activeKey |-> st.activeKey,
            target |-> None, log |-> << >>]
      ELSE LET targetDialog == st.stack[index + 1]
               s1 == spliceRemove(st.stack, index)
               active == topKey(s1)
           IN  [stack |-> updateCloseOnEscapeStates(s1, active),
                activeKey |-> active,
                target |-> Some(targetDialog.key),
                log |-> closeEffects(targetDialog)]

\* mutant: the evicted entry is closed as closeDialog would close it
evictEffects_close(s) ==
  IF Len(s) >= MaxDialogs
  THEN IF s[1].onClose THEN <<"onClose", "shift">> ELSE <<"shift">>
  ELSE << >>

\* dialogStore.ts:131-133: what the eviction does: the shift, no callback
evictEffects(s) == IF Len(s) >= MaxDialogs THEN <<"shift">> ELSE << >>

\* mutant: `length > 10` for `length >= 10`
evict_gt(s) == IF Len(s) > MaxDialogs THEN Tail(s) ELSE s

\* dialogStore.ts:131-133
evict(s) == IF Len(s) >= MaxDialogs THEN Tail(s) ELSE s

\* dialogStore.ts:135-173: the entry createDialog builds from its options;
\* createdBy records the caller (showDialog or showExtensionDialog)
newDialog(options, by) ==
  [key |-> options.key,
   createdBy |-> by,
   visible |-> TRUE,
   priority |-> Coalesce(options.priority, DefaultPriority),
   closable |-> Coalesce(options.closable, TRUE),
   closeOnEscape |-> Coalesce(options.closeOnEscape, TRUE),
   onClose |-> options.onClose]

\* dialogStore.ts:121-180
createDialog(st, options, by) ==
  LET s0 == evict(st.stack)
      s1 == insertDialogByPriority(s0, newDialog(options, by))
  IN  [stack |-> updateCloseOnEscapeStates(s1, Some(options.key)),
       activeKey |-> Some(options.key),
       evicted |-> IF Len(s0) < Len(st.stack)
                   THEN Some(st.stack[1].key) ELSE None,
       log |-> evictEffects(st.stack)]

\* mutant: `dialog.visible = true` is left out
showExisting_noVisible(st, dialogKey) == riseDialog(st, dialogKey)

\* dialogStore.ts:204-206 and 230-231: `dialog.visible = true; riseDialog(dialog)`
showExisting(st, dialogKey) ==
  LET index == findIndexByKey(st.stack, dialogKey)
      s1 == [st.stack EXCEPT ![index + 1].visible = TRUE]
  IN  riseDialog([stack |-> s1, activeKey |-> st.activeKey], dialogKey)

\* dialogStore.ts:200: `options.key || genDialogKey()`, n-th generated key
dialogKeyOf(options, n) ==
  IF options.key # EmptyKey THEN options.key ELSE genDialogKey(n)

\* dialogStore.ts:199-211
showDialog(st, options, n) ==
  LET dialogKey == dialogKeyOf(options, n)
  IN  IF findIndexByKey(st.stack, dialogKey) # -1
      THEN showExisting(st, dialogKey)
           @@ [created |-> FALSE, evicted |-> None, ret |-> Some(dialogKey),
               log |-> << >>]
      ELSE createDialog(st, [options EXCEPT !.key = dialogKey], "show")
           @@ [created |-> TRUE, ret |-> Some(dialogKey)]

\* mutant: the `!key` test is left out
showExtensionDialog_noKeyTest(st, options) ==
  LET extKey == extKeyOf(options.key)
  IN  IF findIndexByKey(st.stack, extKey) = -1
      THEN createDialog(st, [options EXCEPT !.key = extKey], "showExtension")
           @@ [created |-> TRUE, ret |-> Some(extKey)]
      ELSE showExisting(st, extKey)
           @@ [created |-> FALSE, evicted |-> None, ret |-> Some(extKey),
               log |-> << >>]

\* mutant: the stack is searched for the caller's key, not the prefixed one
showExtensionDialog_lookupRaw(st, options) ==
  IF options.key = EmptyKey
  THEN st @@ [created |-> FALSE, evicted |-> None, ret |-> None,
              log |-> <<"console.error">>]
  ELSE LET extKey == extKeyOf(options.key)
       IN  IF findIndexByKey(st.stack, options.key) = -1
           THEN createDialog(st, [options EXCEPT !.key = extKey], "showExtension")
                @@ [created |-> TRUE, ret |-> Some(extKey)]
           ELSE showExisting(st, options.key)
                @@ [created |-> FALSE, evicted |-> None, ret |-> Some(options.key),
                    log |-> << >>]

\* dialogStore.ts:218-233
showExtensionDialog(st, options) ==
  IF options.key = EmptyKey
  THEN st @@ [created |-> FALSE, evicted |-> None, ret |-> None,
              log |-> <<"console.error">>]
  ELSE LET extKey == extKeyOf(options.key)
       IN  IF findIndexByKey(st.stack, extKey) = -1
           THEN createDialog(st, [options EXCEPT !.key = extKey], "showExtension")
                @@ [created |-> TRUE, ret |-> Some(extKey)]
           ELSE showExisting(st, extKey)
                @@ [created |-> FALSE, evicted |-> None, ret |-> Some(extKey),
                    log |-> << >>]

----------------------------------------------------------------------------
(* State and steps *)

store == [stack |-> dialogStack, activeKey |-> activeKey]

\* what callers pass besides the key: priority, dialogComponentProps.closable,
\* dialogComponentProps.closeOnEscape, and whether onClose is registered
Profiles ==
  { [priority |-> None,     closable |-> None,        closeOnEscape |-> None,
     onClose |-> TRUE],
    [priority |-> None,     closable |-> Some(FALSE), closeOnEscape |-> Some(TRUE),
     onClose |-> FALSE],
    [priority |-> Some(2),  closable |-> Some(FALSE), closeOnEscape |-> None,
     onClose |-> TRUE],
    [priority |-> Some(-1), closable |-> Some(TRUE),  closeOnEscape |-> Some(FALSE),
     onClose |-> TRUE] }

\* show() without arguments besides the content: a plain dialog
PlainProfile ==
  [priority |-> None, closable |-> None, closeOnEscape |-> None, onClose |-> TRUE]

Options(keys) == {[key |-> k] @@ p : k \in keys, p \in Profiles}

AnonymousOptions == {[key |-> EmptyKey] @@ PlainProfile}

\* dialogStore.ts:65-71
----------------------------------------------------------------------------
(* The filter of combo context menus, contextMenuFilter.ts *)

\* contextMenuFilter.ts:17: menus of more than 4 values get a filter
FilterThreshold == 4

\* the texts of the menu's entries, one entry per value
ItemTexts == << <<"A", "b">>, <<"a">>, <<"b", "a">>, <<"B">>, <<"c">> >>

\* contextMenuFilter.ts:24-26; an entry is its position in the menu
items == [i \in 1..Len(ItemTexts) |-> i]

\* what the user can leave in the filter input
MaxTermLen == 2

TermChars == {"a", "B", "z"}

Terms == UNION {[1..n -> TermChars] : n \in 0..MaxTermLen}

\* the index of an empty menu runs away under ArrowDown / ArrowUp: the runs
\* followed stop at this distance from 0
MaxIndex == 6

toLocaleLowerCase(s) ==
  [i \in 1..Len(s) |-> CASE s[i] = "A" -> "a"
                         [] s[i] = "B" -> "b"
                         [] OTHER -> s[i]]

\* String.prototype.includes
includes(text, term) ==
  \E i \in 0..(Len(text) - Len(term)) : SubSeq(text, i + 1, i + Len(term)) = term

\* array[i] of JavaScript: undefined out of range
at(s, i) == IF i >= 0 /\ i < Len(s) THEN Some(s[i + 1]) ELSE None

\* contextMenuFilter.ts:53-63
updateSelected(m) ==
  LET cleared == IF m.selectedItem = None THEN m.highlighted
                 ELSE m.highlighted \ {m.selectedItem[1]}
      item == at(m.displayedItems, m.selectedIndex)
  IN  [m EXCEPT !.selectedItem = item,
                !.highlighted = IF item = None THEN cleared
                                ELSE cleared \cup {item[1]}]

\* contextMenuFilter.ts:27-28, 43-50; index is the position of the clicked
\* combo's value among the values, or 0
openMenu(index) ==
  updateSelected([open |-> TRUE, value |-> << >>, displayedItems |-> items,
                  itemCount |-> Len(items), selectedIndex |-> index,
                  selectedItem |-> at(items, index), highlighted |-> {},
                  clicked |-> None, event |-> "open"])

\* no menu is open
NoMenu ==
  [open |-> FALSE, value |-> << >>, displayedItems |-> << >>, itemCount |-> 0,
   selectedIndex |-> 0, selectedItem |-> None, highlighted |-> {},
   clicked |-> None, event |-> "none"]

\* mutant: ArrowDown wraps one step late
arrowDown_late(m) ==
  IF m.selectedIndex = m.itemCount THEN 0 ELSE m.selectedIndex + 1

\* contextMenuFilter.ts:99-103
arrowDown(m) ==
  IF m.selectedIndex = m.itemCount - 1 THEN 0 ELSE m.selectedIndex + 1

\* contextMenuFilter.ts:85-89
arrowUp(m) ==
  IF m.selectedIndex = 0 THEN m.itemCount - 1 ELSE m.selectedIndex - 1

\* contextMenuFilter.ts:81-118
keydown(m, key) ==
  CASE key = "ArrowUp" ->
         updateSelected([m EXCEPT !.selectedIndex = arrowUp(m)])
    [] key = "ArrowRight" ->
         updateSelected([m EXCEPT !.selectedIndex = m.itemCount - 1])
    [] key = "ArrowDown" ->
         updateSelected([m EXCEPT !.selectedIndex = arrowDown(m)])
    [] key = "ArrowLeft" ->
         updateSelected([m EXCEPT !.selectedIndex = 0])
    [] key = "Enter" -> [m EXCEPT !.clicked = m.selectedItem]
    [] key = "Escape" -> [m EXCEPT !.open = FALSE]
    [] OTHER -> m

\* contextMenuFilter.ts:120-139; value is what the input holds now
input(m, value) ==
  LET term == toLocaleLowerCase(value)
      displayed == SelectSeq(items,
                     LAMBDA item : term = << >>
                        \/ includes(toLocaleLowerCase(ItemTexts[item]), term))
      found == IF m.selectedItem = None THEN -1
               ELSE findIndexOf(displayed, m.selectedItem[1])
  IN  updateSelected([m EXCEPT !.value = value,
                               !.displayedItems = displayed,
                               !.selectedIndex = IF found # -1 THEN found ELSE 0,
                               !.itemCount = Len(displayed)])

----------------------------------------------------------------------------

NoCall ==
  [status |-> "idle", frames |-> << >>, calls |-> 0, reentered |-> FALSE,
   expected |-> << >>]

Init ==
  /\ dialogStack = << >>
  /\ activeKey = None
  /\ genCount = 0
  /\ last = [op |-> "init", key |-> None, created |-> FALSE, evicted |-> None,
             log |-> << >>, ret |-> None]
  /\ removed = {}
  /\ prevActive = None
  /\ call = NoCall
  /\ menu = NoMenu

\* a caller's showDialog(options); at most maxGen keys are generated
ShowDialog(options, maxGen) ==
  /\ options.key = EmptyKey => genCount < maxGen
  /\ LET r == showDialog(store, options, genCount + 1)
     IN  /\ dialogStack' = r.stack
         /\ activeKey' = r.activeKey
         /\ genCount' = IF options.key = EmptyKey THEN genCount + 1 ELSE genCount
         /\ last' = [op |-> "show", key |-> r.ret, created |-> r.created,
                     evicted |-> r.evicted, log |-> r.log, ret |-> r.ret]

\* a caller's showExtensionDialog(options)
ShowExtensionDialog(options) ==
  LET r == showExtensionDialog(store, options)
  IN  /\ dialogStack' = r.stack
      /\ activeKey' = r.activeKey
      /\ last' = [op |-> "showExtension", key |-> Some(options.key),
                  created |-> r.created, evicted |-> r.evicted, log |-> r.log,
                  ret |-> r.ret]
      /\ UNCHANGED genCount

DoRise(key) ==
  LET r == riseDialog(store, key)
  IN  /\ dialogStack' = r.stack
      /\ activeKey' = r.activeKey
      /\ last' = [op |-> "rise", key |-> Some(key), created |-> FALSE,
                  evicted |-> None, log |-> << >>, ret |-> None]
      /\ UNCHANGED genCount

DoClose(options) ==
  LET r == closeDialog(store, options)
  IN  /\ dialogStack' = r.stack
      /\ activeKey' = r.activeKey
      /\ last' = [op |-> "close", key |-> options, created |-> FALSE,
                  evicted |-> None, log |-> r.log, ret |-> None]
      /\ UNCHANGED genCount

\* a caller's riseDialog({ key })
RiseDialog(key) == DoRise(key)

\* a caller's closeDialog({ key })
CloseDialog(key) == DoClose(Some(key))

\* a caller's closeDialog()
CloseActive == DoClose(None)

\* a caller's closeDialog() while one of `keys` is the active dialog
CloseActiveOf(keys) == activeKey \in {Some(k) : k \in keys} /\ DoClose(None)

\* dialogStore.ts:162-164: `closeDialog(dialog)` resolves by dialog.key; the
\* closure outlives its entry, so the key may name no entry or a later one
OnAfterHide(key) == DoClose(Some(key))

\* dialogStore.ts:167-169: `riseDialog(dialog)`, by dialog.key as well
OnMousedown(key) == DoRise(key)

\* the rendering collaborator hides an entry (v-model:visible)
HideDialog(key) ==
  LET index == findIndexByKey(dialogStack, key)
  IN  /\ index # -1
      /\ dialogStack[index + 1].visible
      /\ dialogStack' = [dialogStack EXCEPT ![index + 1].visible = FALSE]
      /\ last' = [op |-> "hide", key |-> Some(key), created |-> FALSE,
                  evicted |-> None, log |-> << >>, ret |-> None]
      /\ UNCHANGED <<activeKey, genCount>>

\* the hooks of an entry that left the stack under `key` can still fire
HasStaleHooks(key) == \E r \in removed : r.key = key

\* dialogStore.ts:162-164 fired by a removed entry: closeDialog(dialog)
\* resolves by dialog.key, whatever entry has that key now
StaleAfterHide(key) ==
  /\ HasStaleHooks(key)
  /\ LET r == closeDialog(store, Some(key))
     IN  /\ dialogStack' = r.stack
         /\ activeKey' = r.activeKey
         /\ last' = [op |-> "staleAfterHide", key |-> Some(key), created |-> FALSE,
                     evicted |-> None, log |-> r.log, ret |-> None]
         /\ UNCHANGED genCount

\* dialogStore.ts:167-169 fired by a removed entry: riseDialog(dialog)
StaleMousedown(key) ==
  /\ HasStaleHooks(key)
  /\ LET r == riseDialog(store, key)
     IN  /\ dialogStack' = r.stack
         /\ activeKey' = r.activeKey
         /\ last' = [op |-> "staleMousedown", key |-> Some(key), created |-> FALSE,
                     evicted |-> None, log |-> << >>, ret |-> None]
         /\ UNCHANGED genCount

\* no history is kept
Quiet == UNCHANGED <<removed, prevActive, call, menu>>

\* the keys that left the stack in this step are recorded with how they left
TrackRemoved ==
  LET gone == Keys(dialogStack) \ Keys(dialogStack')
  IN  /\ removed' = {r \in removed : r.key \notin gone}
                      \cup {[key |-> k,
                             how |-> IF last'.evicted = Some(k)
                                     THEN "evicted" ELSE "closed",
                             onClose |-> Entry(dialogStack, k).onClose] : k \in gone}
      /\ UNCHANGED <<prevActive, call, menu>>

\* the Active Key before the step is recorded
TrackActive == prevActive' = activeKey /\ UNCHANGED <<removed, call, menu>>

\* a call between two closes: no closeDialog is in progress
CallIdle ==
  /\ call.frames = << >>
  /\ call' = NoCall
  /\ UNCHANGED <<removed, prevActive, menu>>

\* dialogStore.ts:104-109: closeDialog(options) finds its target and invokes
\* the target's onClose, which is a caller's function and may call back
enterClose(options) ==
  LET index == IF options # None
               THEN findIndexByKey(dialogStack, options[1])
               ELSE IF activeKey = None THEN -1
                    ELSE findIndexByKey(dialogStack, activeKey[1])
  IN  IF index = -1 THEN None ELSE Some(dialogStack[index + 1])

\* dialogStore.ts:110-118: the rest of closeDialog, run when onClose returned
finishClose(st, targetKey) ==
  LET index == findIndexByKey(st.stack, targetKey)
      s1 == splice1(st.stack, index)
      active == topKey(s1)
  IN  [stack |-> updateCloseOnEscapeStates(s1, active), activeKey |-> active]

\* closeDialog(options) from outside: the target's onClose starts running,
\* or, with no onClose, the call runs to its end
BeginClose(options) ==
  /\ call.frames = << >>
  /\ enterClose(options) # None
  /\ LET target == enterClose(options)[1]
         r == finishClose(store, target.key)
         expected == KeySeq(Without(dialogStack, target.key))
     IN  IF target.onClose
         THEN /\ call' = [status |-> "running", frames |-> <<target.key>>,
                          calls |-> 1, reentered |-> FALSE,
                          expected |-> expected]
              /\ UNCHANGED <<dialogStack, activeKey, last>>
         ELSE /\ call' = [status |-> "returned", frames |-> << >>,
                          calls |-> 0, reentered |-> FALSE,
                          expected |-> expected]
              /\ dialogStack' = r.stack
              /\ activeKey' = r.activeKey
              /\ last' = [op |-> "close", key |-> options, created |-> FALSE,
                          evicted |-> None, log |-> <<"splice">>, ret |-> None]
  /\ UNCHANGED <<genCount, removed, prevActive, menu>>

\* the running onClose callback calls closeDialog for its own entry
\* (options is Some(key), or None while that entry is the active one)
CallbackCloses(options) ==
  /\ call.frames # << >>
  /\ Len(call.frames) < MaxDepth
  /\ LET own == call.frames[Len(call.frames)]
     IN  /\ options = None => activeKey = Some(own)
         /\ options # None => options = Some(own)
         /\ enterClose(options) # None
         /\ call' = [call EXCEPT !.frames = Append(@, own),
                                 !.calls = @ + 1,
                                 !.reentered = TRUE]
  /\ UNCHANGED <<dialogStack, activeKey, genCount, last, removed, prevActive,
                 menu>>

\* the callback calls closeDialog once more with the call stack full: the
\* engine throws RangeError, which unwinds every closeDialog in progress
\* before its splice
StackOverflow ==
  /\ Len(call.frames) = MaxDepth
  /\ enterClose(Some(call.frames[Len(call.frames)])) # None
  /\ call' = [call EXCEPT !.status = "thrown", !.frames = << >>, !.reentered = TRUE]
  /\ UNCHANGED <<dialogStack, activeKey, genCount, last, removed, prevActive,
                 menu>>

\* the running onClose callback returns: its closeDialog goes on with
\* indexOf, splice and the Active Key
CallbackReturns ==
  /\ call.frames # << >>
  /\ LET own == call.frames[Len(call.frames)]
         r == finishClose(store, own)
         rest == SubSeq(call.frames, 1, Len(call.frames) - 1)
     IN  /\ dialogStack' = r.stack
         /\ activeKey' = r.activeKey
         /\ last' = [op |-> "close", key |-> Some(own), created |-> FALSE,
                     evicted |-> None, log |-> <<"onClose", "splice">>,
                     ret |-> None]
         /\ call' = [call EXCEPT !.frames = rest,
                                 !.status = IF rest = << >> THEN "returned"
                                            ELSE "running"]
  /\ UNCHANGED <<genCount, removed, prevActive, menu>>

Next ==
  \/ \E o \in Options(CallerKeys) \cup AnonymousOptions :
       ShowDialog(o, NumGenKeys) /\ Quiet
  \/ \E o \in Options(KeyInputs) : ShowExtensionDialog(o) /\ Quiet
  \/ \E k \in OpKeys : RiseDialog(k) /\ Quiet
  \/ \E k \in OpKeys : CloseDialog(k) /\ Quiet
  \/ CloseActive /\ Quiet
  \/ \E k \in OpKeys : OnAfterHide(k) /\ Quiet
  \/ \E k \in OpKeys : OnMousedown(k) /\ Quiet
  \/ \E k \in CallerKeys : HideDialog(k) /\ Quiet

Spec == Init /\ [][Next]_vars

\* Many anonymous dialogs and one keyed entry: the stack fills to MaxDialogs.
\* Callers and hooks address the keyed entry and the first anonymous dialog;
\* the other anonymous dialogs leave the stack by eviction only.
NextCap ==
  \/ \E o \in Options(CapKeys) \cup AnonymousOptions :
       ShowDialog(o, NumFillKeys) /\ Quiet
  \/ \E o \in Options(CapExtInputs) : ShowExtensionDialog(o) /\ Quiet
  \/ \E k \in CapOpKeys : RiseDialog(k) /\ Quiet
  \/ \E k \in CapOpKeys : CloseDialog(k) /\ Quiet
  \/ CloseActiveOf(CapOpKeys) /\ Quiet
  \/ \E k \in CapOpKeys : OnAfterHide(k) /\ Quiet
  \/ \E k \in CapOpKeys : OnMousedown(k) /\ Quiet
  \/ \E k \in CapKeys : HideDialog(k) /\ Quiet

SpecCap == Init /\ [][NextCap]_vars

\* Spec with the previous Active Key kept
NextPrev ==
  \/ \E o \in Options(CallerKeys) \cup AnonymousOptions :
       ShowDialog(o, NumGenKeys) /\ TrackActive
  \/ \E o \in Options(KeyInputs) : ShowExtensionDialog(o) /\ TrackActive
  \/ \E k \in OpKeys : RiseDialog(k) /\ TrackActive
  \/ \E k \in OpKeys : CloseDialog(k) /\ TrackActive
  \/ CloseActive /\ TrackActive
  \/ \E k \in OpKeys : OnAfterHide(k) /\ TrackActive
  \/ \E k \in OpKeys : OnMousedown(k) /\ TrackActive
  \/ \E k \in CallerKeys : HideDialog(k) /\ TrackActive

SpecPrev == Init /\ [][NextPrev]_vars

\* SpecCap with the removed keys kept and the hooks of removed entries firing
NextStale ==
  \/ \E o \in Options(CapKeys) \cup AnonymousOptions :
       ShowDialog(o, NumFillKeys) /\ TrackRemoved
  \/ \E o \in Options(CapExtInputs) : ShowExtensionDialog(o) /\ TrackRemoved
  \/ \E k \in CapOpKeys : RiseDialog(k) /\ TrackRemoved
  \/ \E k \in CapOpKeys : CloseDialog(k) /\ TrackRemoved
  \/ CloseActiveOf(CapOpKeys) /\ TrackRemoved
  \/ \E k \in CapOpKeys : OnAfterHide(k) /\ TrackRemoved
  \/ \E k \in CapOpKeys : OnMousedown(k) /\ TrackRemoved
  \/ \E k \in CapKeys : HideDialog(k) /\ TrackRemoved
  \/ \E k \in CapOpKeys : StaleAfterHide(k) /\ TrackRemoved
  \/ \E k \in CapOpKeys : StaleMousedown(k) /\ TrackRemoved

SpecStale == Init /\ [][NextStale]_vars

\* Dialogs whose onClose callbacks may close their own entry
NextReentrant ==
  \/ \E o \in Options(CallerKeys) \cup AnonymousOptions :
       ShowDialog(o, NumGenKeys) /\ CallIdle
  \/ \E k \in OpKeys : BeginClose(Some(k))
  \/ BeginClose(None)
  \/ \E k \in OpKeys : CallbackCloses(Some(k))
  \/ CallbackCloses(None)
  \/ StackOverflow
  \/ CallbackReturns

SpecReentrant == Init /\ [][NextReentrant]_vars

\* a key event on the filter input of the open menu
Keydown(key) ==
  /\ menu.open
  /\ key = "ArrowDown" => menu.selectedIndex < MaxIndex
  /\ key = "ArrowUp" => menu.selectedIndex > -MaxIndex
  /\ menu' = [keydown(menu, key) EXCEPT !.event = key]
  /\ UNCHANGED <<dialogStack, activeKey, genCount, last, removed, prevActive,
                 call>>

\* an input event: the filter input now holds value
Input(value) ==
  /\ menu.open
  /\ menu' = [input(menu, value) EXCEPT !.event = "input"]
  /\ UNCHANGED <<dialogStack, activeKey, genCount, last, removed, prevActive,
                 call>>

\* a combo context menu opens on any of its values
InitMenu ==
  /\ Len(ItemTexts) > FilterThreshold
  /\ dialogStack = << >>
  /\ activeKey = None
  /\ genCount = 0
  /\ last = [op |-> "init", key |-> None, created |-> FALSE, evicted |-> None,
             log |-> << >>, ret |-> None]
  /\ removed = {}
  /\ prevActive = None
  /\ call = NoCall
  /\ menu \in {openMenu(index) : index \in 0..(Len(items) - 1)}

NextMenu ==
  \/ Keydown("ArrowUp")
  \/ Keydown("ArrowRight")
  \/ Keydown("ArrowDown")
  \/ Keydown("ArrowLeft")
  \/ Keydown("Enter")
  \/ Keydown("Escape")
  \/ \E value \in Terms : Input(value)

SpecMenu == InitMenu /\ [][NextMenu]_vars

----------------------------------------------------------------------------
(* Properties *)

\* C1: the stack is sorted by priority, descending: every adjacent pair
\* (i, i+1) has priority[i] >= priority[i+1], evictions included.
PriorityOrdered ==
  \A i \in 1..(Len(dialogStack) - 1) :
    dialogStack[i].priority >= dialogStack[i + 1].priority

\* an eviction has just happened in a stack with a strict descent and a tie
PriorityOrderedWitness ==
  /\ last.evicted # None
  /\ \E i \in 1..(Len(dialogStack) - 1) :
       dialogStack[i].priority > dialogStack[i + 1].priority
  /\ \E i \in 1..(Len(dialogStack) - 1) :
       dialogStack[i].priority = dialogStack[i + 1].priority

\* C2: a non-empty stack has an Active Key that names one of its entries; an
\* empty stack has Active Key null.
ActiveKeyLive ==
  IF Len(dialogStack) > 0
  THEN activeKey # None /\ activeKey[1] \in Keys(dialogStack)
  ELSE activeKey = None

\* a close has removed an entry and left others behind
ActiveKeyLiveWitness ==
  /\ last.op = "close"
  /\ last.log # << >>
  /\ Len(dialogStack) > 1
  /\ activeKey = Some(dialogStack[Len(dialogStack)].key)

\* C3: an entry has closeOnEscape = true exactly if its key is the Active Key
\* and its closable option is true, whatever closeOnEscape the caller passed;
\* so at most one entry has it, and that entry is the active one.
EscapeEligibility ==
  /\ \A i \in 1..Len(dialogStack) :
       dialogStack[i].closeOnEscape
         = (activeKey = Some(dialogStack[i].key) /\ dialogStack[i].closable)
  /\ Cardinality({i \in 1..Len(dialogStack) : dialogStack[i].closeOnEscape}) <= 1

\* the active entry was created with closeOnEscape: false and is eligible,
\* and an inactive closable entry and an unclosable entry are not
EscapeEligibilityWitness ==
  \E i, j, k \in 1..Len(dialogStack) :
    /\ dialogStack[i].priority = -1
    /\ activeKey = Some(dialogStack[i].key)
    /\ dialogStack[i].closeOnEscape
    /\ j # i /\ dialogStack[j].closable /\ ~dialogStack[j].closeOnEscape
    /\ ~dialogStack[k].closable /\ ~dialogStack[k].closeOnEscape

\* C4: the stack never holds more than 10 entries; a creation while it holds
\* 10 removes exactly the entry at index 0 and then inserts the new entry, so
\* the stack holds 10 afterward.
CapacityBound ==
  [][ /\ Len(dialogStack') <= MaxDialogs
      /\ (last'.created /\ Len(dialogStack) = MaxDialogs) =>
           /\ Len(dialogStack') = MaxDialogs
           /\ last'.evicted = Some(dialogStack[1].key)
           /\ last'.ret[1] \notin Keys(dialogStack)
           /\ KeySeq(Without(dialogStack', last'.ret[1])) = KeySeq(Tail(dialogStack))
    ]_vars

\* a creation has evicted an entry and the stack is full again
CapacityBoundWitness ==
  /\ last.created
  /\ last.evicted # None
  /\ Len(dialogStack) = MaxDialogs
  /\ ~isDialogOpen(last.evicted[1])

\* C5: a creation that evicts an entry evicts the oldest one, the entry at
\* the end of the priority order (the least recently inserted or promoted
\* entry of the lowest tier); with ten default-priority dialogs open, the
\* eleventh closes the first.
EvictsOldest ==
  [][ last'.evicted # None =>
        LET oldest == dialogStack[Len(dialogStack)].key
        IN  last'.evicted = Some(oldest) /\ oldest \notin Keys(dialogStack')
    ]_vars

\* C6: no two stack entries have the same key.
KeysUnique ==
  \A i, j \in 1..Len(dialogStack) :
    dialogStack[i].key = dialogStack[j].key => i = j

\* showExtension has found its entry among generated, plain and prefixed keys
KeysUniqueWitness ==
  /\ Len(dialogStack) = 2 + NumGenKeys
  /\ last.op = "showExtension"
  /\ ~last.created
  /\ last.ret = Some(ExtPrefix \o <<"foo">>)

\* C7: show with a key that names a stack entry creates and evicts nothing,
\* also in a full stack: length and keys are unchanged, the entry is visible,
\* is returned, and is the active one.
IdempotentReshow ==
  [][ (last'.op = "show" /\ last'.key[1] \in Keys(dialogStack)) =>
        /\ ~last'.created
        /\ last'.evicted = None
        /\ Len(dialogStack') = Len(dialogStack)
        /\ Keys(dialogStack') = Keys(dialogStack)
        /\ Entry(dialogStack', last'.key[1]).visible
        /\ last'.ret = last'.key
        /\ activeKey' = last'.key
    ]_vars

\* show has found its entry in a full stack
IdempotentReshowWitness ==
  /\ last.op = "show"
  /\ ~last.created
  /\ Len(dialogStack) = MaxDialogs
  /\ activeKey = last.ret
  /\ Entry(dialogStack, last.ret[1]).visible

\* C8: showExtension with key 'foo' and with key 'extension-foo' both resolve
\* to the one entry 'extension-foo'; no key is prefixed twice.
NamespaceNormalized ==
  /\ (last.op = "showExtension"
        /\ last.key \in {Some(<<"foo">>), Some(<<"extension-", "foo">>)}) =>
       /\ last.ret = Some(<<"extension-", "foo">>)
       /\ activeKey = Some(<<"extension-", "foo">>)
       /\ Cardinality({i \in 1..Len(dialogStack) :
                         dialogStack[i].key = <<"extension-", "foo">>}) = 1
  /\ \A i \in 1..Len(dialogStack) :
       ~StartsWith(dialogStack[i].key, <<"extension-", "extension-">>)

\* showExtension('extension-foo') has found the entry showExtension created
NamespaceNormalizedWitness ==
  /\ last.op = "showExtension"
  /\ last.key = Some(<<"extension-", "foo">>)
  /\ ~last.created
  /\ Entry(dialogStack, <<"extension-", "foo">>).createdBy = "showExtension"

\* C9 as stated: show and showExtension never resolve to an entry the other
\* created.
NamespaceIsolated ==
  (last.op \in {"show", "showExtension"} /\ last.ret # None) =>
    Entry(dialogStack, last.ret[1]).createdBy = last.op

\* C9 as amended: showExtension creates and resolves only entries whose key
\* starts with 'extension-'; show and showExtension meet in an entry only
\* under such a key.
NamespaceIsolatedByPrefix ==
  /\ \A i \in 1..Len(dialogStack) :
       dialogStack[i].createdBy = "showExtension" =>
         StartsWith(dialogStack[i].key, <<"extension-">>)
  /\ (last.op = "showExtension" /\ last.ret # None) =>
       StartsWith(last.ret[1], <<"extension-">>)
  /\ (last.op \in {"show", "showExtension"} /\ last.ret # None
        /\ Entry(dialogStack, last.ret[1]).createdBy # last.op) =>
       StartsWith(last.ret[1], <<"extension-">>)

\* showExtension('foo') has created its own entry beside show's 'foo'
NamespaceIsolatedByPrefixWitness ==
  /\ last.op = "showExtension"
  /\ last.key = Some(<<"foo">>)
  /\ last.created
  /\ last.ret = Some(<<"extension-", "foo">>)
  /\ isDialogOpen(<<"foo">>)
  /\ Entry(dialogStack, <<"foo">>).createdBy = "show"

\* C10: a close that resolves to an entry (by key, of the active entry, or
\* from onAfterHide) invokes the entry's onClose once and then removes the
\* entry, which is not open afterward; a close that resolves to no entry
\* invokes nothing and changes nothing.
CloseCallsOnce ==
  [][ last'.op = "close" =>
        LET target == IF last'.key # None THEN last'.key ELSE activeKey
        IN  IF target # None /\ target[1] \in Keys(dialogStack)
            THEN /\ last'.log =
                      IF Entry(dialogStack, target[1]).onClose
                      THEN <<"onClose", "splice">> ELSE <<"splice">>
                 /\ target[1] \notin Keys(dialogStack')
                 /\ KeySeq(dialogStack') = KeySeq(Without(dialogStack, target[1]))
            ELSE /\ last'.log = << >>
                 /\ UNCHANGED <<dialogStack, activeKey>>
    ]_vars

\* a close by key has invoked onClose and removed the entry
CloseCallsOnceWitness ==
  /\ last.op = "close"
  /\ last.key # None
  /\ last.log = <<"onClose", "splice">>
  /\ ~isDialogOpen(last.key[1])

\* C11: showExtension without a key reports an error, returns nothing and
\* leaves the stack and the Active Key as they were.
MissingKeyRejected ==
  [][ (last'.op = "showExtension" /\ last'.key = Some(EmptyKey)) =>
        /\ last'.log = <<"console.error">>
        /\ last'.ret = None
        /\ ~last'.created
        /\ UNCHANGED <<dialogStack, activeKey, genCount>>
    ]_vars

\* showExtension without a key was called on a stack with entries
MissingKeyRejectedWitness ==
  /\ last.op = "showExtension"
  /\ last.key = Some(EmptyKey)
  /\ last.log = <<"console.error">>
  /\ Len(dialogStack) > 1
  /\ activeKey # None

\* C12: close or rise with a key that names no entry, and close() while the
\* Active Key is null, change neither the stack nor the Active Key and invoke
\* no callback.
MissingTargetNoop ==
  [][ ( \/ /\ last'.op \in {"rise", "close"}
           /\ last'.key # None
           /\ last'.key[1] \notin Keys(dialogStack)
        \/ /\ last'.op = "close"
           /\ last'.key = None
           /\ activeKey = None ) =>
        /\ UNCHANGED <<dialogStack, activeKey>>
        /\ last'.log = << >>
    ]_vars

\* rise was called with a key that names none of the entries
MissingTargetNoopWitness ==
  /\ last.op = "rise"
  /\ last.key[1] \notin Keys(dialogStack)
  /\ Len(dialogStack) > 0
  /\ activeKey # last.key

\* C13: after a close that removed an entry, the Active Key is the key of the
\* last entry of the remaining stack, or null when none remains.
ActiveIsLastAfterClose ==
  (last.op = "close" /\ last.log # << >>) =>
    activeKey = IF Len(dialogStack) > 0
                THEN Some(dialogStack[Len(dialogStack)].key)
                ELSE None

\* a close left two entries of different priority; the lower one is active
ActiveIsLastAfterCloseWitness ==
  /\ last.op = "close"
  /\ last.log # << >>
  /\ Len(dialogStack) = 2
  /\ dialogStack[1].priority > dialogStack[2].priority
  /\ activeKey = Some(dialogStack[2].key)

\* the key a show, showExtension or rise step has inserted or re-inserted
\* (None when the step inserted nothing)
Inserted(s, l) ==
  IF l.op \in {"show", "showExtension"} THEN l.ret
  ELSE IF l.op = "rise" /\ l.key[1] \in Keys(s) THEN l.key
  ELSE None

\* position (1-based) of key in s
Pos(s, key) == findIndexByKey(s, key) + 1

\* C14: an entry inserted by a creation or re-inserted by rise or re-show
\* ends up after every strictly-higher-priority entry and immediately before
\* the first other entry of priority <= its own, the other entries keep
\* their order, and the entry is the active one.
FrontOfTier ==
  [][ Inserted(dialogStack, last') # None =>
        LET key == Inserted(dialogStack, last')[1]
            i == Pos(dialogStack', key)
            p == dialogStack'[i].priority
            others == IF last'.evicted # None THEN Tail(dialogStack)
                      ELSE dialogStack
        IN  /\ \A j \in 1..(i - 1) : dialogStack'[j].priority > p
            /\ i < Len(dialogStack') => dialogStack'[i + 1].priority <= p
            /\ KeySeq(Without(dialogStack', key)) = KeySeq(Without(others, key))
            /\ activeKey' = Some(key)
    ]_vars

\* rise has put an entry behind a higher-priority entry and ahead of an
\* equal-priority one, and the entry is active
FrontOfTierWitness ==
  /\ last.op = "rise"
  /\ Len(dialogStack) = 3
  /\ last.key = Some(dialogStack[2].key)
  /\ dialogStack[1].priority > dialogStack[2].priority
  /\ dialogStack[2].priority = dialogStack[3].priority
  /\ activeKey = last.key

\* C15 as stated: a newly created entry is placed after all existing
\* entries of the same priority.
InsertedAfterEquals ==
  [][ last'.created =>
        LET i == Pos(dialogStack', last'.ret[1])
        IN  \A j \in 1..Len(dialogStack') :
              (j # i /\ dialogStack'[j].priority = dialogStack'[i].priority) => j < i
    ]_vars

\* C15 as amended: a newly created entry is placed before all existing
\* entries of the same priority (and after those of higher priority).
InsertedBeforeEquals ==
  [][ last'.created =>
        LET i == Pos(dialogStack', last'.ret[1])
        IN  \A j \in 1..Len(dialogStack') :
              /\ (j # i /\ dialogStack'[j].priority = dialogStack'[i].priority) => j > i
              /\ dialogStack'[j].priority > dialogStack'[i].priority => j < i
    ]_vars

\* a creation has joined two entries of its own priority, ahead of them
InsertedBeforeEqualsWitness ==
  /\ last.created
  /\ Len(dialogStack) = 3
  /\ last.ret = Some(dialogStack[1].key)
  /\ dialogStack[1].priority = dialogStack[2].priority
  /\ dialogStack[2].priority = dialogStack[3].priority

\* C16: an eviction drops the entry at position 0 with a bare shift and
\* invokes no onClose; while the evicted key is not re-created, a later close,
\* rise or onAfterHide / pointer-down hook for it changes nothing and invokes
\* nothing.
EvictionSkipsOnClose ==
  [][ /\ last'.evicted # None =>
            /\ last'.evicted = Some(dialogStack[1].key)
            /\ last'.log = <<"shift">>
      /\ \A r \in removed :
            ( /\ r.how = "evicted"
              /\ r.key \notin Keys(dialogStack)
              /\ last'.op \in {"close", "rise", "staleAfterHide", "staleMousedown"}
              /\ last'.key = Some(r.key) )
            => /\ last'.log = << >>
               /\ UNCHANGED <<dialogStack, activeKey>>
    ]_vars

\* an entry with an onClose callback was evicted and its onAfterHide hook
\* fired afterwards, to no effect
EvictionSkipsOnCloseWitness ==
  \E r \in removed :
    /\ r.how = "evicted"
    /\ r.onClose
    /\ r.key \notin Keys(dialogStack)
    /\ last.op = "staleAfterHide"
    /\ last.key = Some(r.key)
    /\ last.log = << >>

\* C17 as stated: closing an entry that is not the active one leaves the
\* Active Key unchanged, and the previously active entry keeps its
\* closeOnEscape eligibility.
NonActiveCloseKeepsActive ==
  ( /\ last.op = "close"
    /\ last.log # << >>
    /\ last.key # None
    /\ last.key # prevActive
    /\ prevActive # None )
  => /\ activeKey = prevActive
     /\ LET e == Entry(dialogStack, prevActive[1])
        IN  e.closeOnEscape = e.closable

\* C17 amended: closing an entry that is not the active one makes the last
\* remaining entry active; the previously active entry stays active and
\* keeps its closeOnEscape eligibility exactly when it is that last entry.
NonActiveCloseActivatesLast ==
  ( /\ last.op = "close"
    /\ last.log # << >>
    /\ last.key # None
    /\ last.key # prevActive
    /\ prevActive # None )
  => LET e == Entry(dialogStack, prevActive[1])
         lastKey == Some(dialogStack[Len(dialogStack)].key)
     IN  /\ activeKey = lastKey
         /\ e.closeOnEscape = (e.closable /\ prevActive = lastKey)

\* a non-active entry was closed and the Active Key moved to another entry
NonActiveCloseActivatesLastWitness ==
  /\ last.op = "close"
  /\ last.log # << >>
  /\ last.key # None
  /\ last.key # prevActive
  /\ prevActive # None
  /\ activeKey # prevActive
  /\ Entry(dialogStack, prevActive[1]).closable
  /\ ~Entry(dialogStack, prevActive[1]).closeOnEscape

\* C18: the onAfterHide or pointer-down hook of an entry that left the stack,
\* fired while a later entry holds the same key, does not remove that entry,
\* invoke its onClose, change the Active Key or reorder the sequence.
StaleHookIgnored ==
  [][ ( /\ last'.op \in {"staleAfterHide", "staleMousedown"}
        /\ last'.key[1] \in Keys(dialogStack) )
      => /\ last'.log = << >>
         /\ UNCHANGED <<dialogStack, activeKey>>
    ]_vars

\* C19: when an onClose callback closed its own entry again, the outer close
\* returns, onClose ran once in all, and the stack lost that entry and no
\* other.
ReentrantCloseOnce ==
  (call.reentered /\ call.status # "running")
  => /\ call.status = "returned"
     /\ call.calls = 1
     /\ KeySeq(dialogStack) = call.expected

\* the selection of the menu is an entry on display, and it alone is highlighted
SelectionShown(m) ==
  m.displayedItems # << >> =>
    /\ m.itemCount = Len(m.displayedItems)
    /\ m.selectedIndex \in 0..(m.itemCount - 1)
    /\ m.selectedItem = Some(m.displayedItems[m.selectedIndex + 1])
    /\ m.highlighted = {m.displayedItems[m.selectedIndex + 1]}

\* C20: after any arrow-key and filter-input events, while an item is on
\* display the selected index is within [0, itemCount - 1] and the highlighted
\* item is displayedItems[selectedIndex]; ArrowDown on the last item selects
\* the first and ArrowUp on the first selects the last; a filter input keeps
\* the selected item if it is still on display and selects the first item on
\* display otherwise.
MenuSelection ==
  [][ /\ SelectionShown(menu)
      /\ SelectionShown(menu')
      /\ ( /\ menu'.event = "ArrowDown"
            /\ menu.displayedItems # << >>
            /\ menu.selectedIndex = menu.itemCount - 1 )
         => menu'.selectedIndex = 0
      /\ ( /\ menu'.event = "ArrowUp"
            /\ menu.displayedItems # << >>
            /\ menu.selectedIndex = 0 )
         => menu'.selectedIndex = menu.itemCount - 1
      /\ ( menu'.event = "input" /\ menu'.displayedItems # << >> )
         => IF /\ menu.selectedItem # None
               /\ \E i \in 1..Len(menu'.displayedItems) :
                    menu'.displayedItems[i] = menu.selectedItem[1]
            THEN menu'.selectedItem = menu.selectedItem
            ELSE menu'.selectedItem = Some(menu'.displayedItems[1])
    ]_vars

\* a filter input shortened the list and the selected item stayed selected
\* at a new, non-zero index
MenuSelectionWitness ==
  /\ menu.event = "input"
  /\ menu.displayedItems # << >>
  /\ Len(menu.displayedItems) < Len(items)
  /\ menu.selectedIndex > 0
  /\ menu.displayedItems[menu.selectedIndex + 1] # menu.selectedIndex + 1
  /\ menu.highlighted = {menu.displayedItems[menu.selectedIndex + 1]}

=============================================================================
